---- MODULE Spec2Model ----
(***************************************************************************)
(* A model of the Slurm Prometheus exporter: the collector's scrape loop   *)
(* (CollectAll / collectEndpoint / addCustomLabels / WriteMetrics), the    *)
(* /metrics handler and the self-metrics the collector reports into.       *)
(*                                                                         *)
(* Text is modelled byte by byte: a string is a sequence of one-byte       *)
(* strings, so that the string operations of the collector (Fields,        *)
(* HasPrefix, Index, slicing) are computed as Go computes them.            *)
(***************************************************************************)
EXTENDS Integers, Sequences, FiniteSets, TLC

(***************************************************************************)
(* Bounds of the model.                                                    *)
(***************************************************************************)
\* number of /metrics requests served in one behaviour
MaxScrapes == 2
\* most lines in an upstream body handed to the label injector
MaxLines == 2
\* most metric families in an upstream body handed to the label injector
MaxFamilies == 2

(***************************************************************************)
(* Go strings: helpers of package strings and bufio, on byte sequences.    *)
(***************************************************************************)

\* unicode.IsSpace on the ASCII range
IsSpace(ch) == ch \in {" ", "\t", "\n", "\r", "\f"}

\* strings.HasPrefix(s, prefix)
HasPrefix(s, prefix) ==
    /\ Len(s) >= Len(prefix)
    /\ SubSeq(s, 1, Len(prefix)) = prefix

\* strings.Index(s, ch) for a one-byte needle, 0-based, -1 when absent
Index(s, ch) ==
    IF \E i \in 1..Len(s) : s[i] = ch
    THEN (CHOOSE i \in 1..Len(s) : s[i] = ch /\ \A j \in 1..(i - 1) : s[j] # ch) - 1
    ELSE -1

\* strings.Contains(s, ch) for a one-byte needle
Contains(s, ch) == Index(s, ch) >= 0

\* strings.TrimSpace(s)
RECURSIVE TrimLeft(_)
TrimLeft(s) == IF s # <<>> /\ IsSpace(Head(s)) THEN TrimLeft(Tail(s)) ELSE s

RECURSIVE TrimRight(_)
TrimRight(s) ==
    IF s # <<>> /\ IsSpace(s[Len(s)]) THEN TrimRight(SubSeq(s, 1, Len(s) - 1)) ELSE s

TrimSpace(s) == TrimRight(TrimLeft(s))

\* strings.Fields(s): the maximal runs of non-space bytes, in order
RECURSIVE FieldsFrom(_, _)
FieldsFrom(s, acc) ==
    LET t == TrimLeft(s) IN
    IF t = <<>> THEN acc
    ELSE LET end == IF \E i \in 1..Len(t) : IsSpace(t[i])
                    THEN (CHOOSE i \in 1..Len(t) :
                              IsSpace(t[i]) /\ \A j \in 1..(i - 1) : ~IsSpace(t[j])) - 1
                    ELSE Len(t)
         IN FieldsFrom(SubSeq(t, end + 1, Len(t)), Append(acc, SubSeq(t, 1, end)))

Fields(s) == FieldsFrom(s, <<>>)

\* strings.Join(parts, sep)
RECURSIVE Join(_, _)
Join(parts, sep) ==
    IF parts = <<>> THEN <<>>
    ELSE IF Len(parts) = 1 THEN parts[1]
    ELSE parts[1] \o sep \o Join(Tail(parts), sep)

\* s[lo:hi] of Go, 0-based and half open; the caller checks lo <= hi <= len(s)
Slice(s, lo, hi) == SubSeq(s, lo + 1, hi)

\* bufio.Scanner with ScanLines: the lines of the text without their
\* terminators; a trailing "\r" of a line is dropped, and a last line without
\* a terminator is returned when it is not empty.
DropCR(line) ==
    IF line # <<>> /\ line[Len(line)] = "\r" THEN SubSeq(line, 1, Len(line) - 1) ELSE line

RECURSIVE ScanFrom(_, _)
ScanFrom(s, acc) ==
    IF s = <<>> THEN acc
    ELSE LET i == Index(s, "\n") IN
         IF i < 0
         THEN Append(acc, DropCR(s))
         ELSE ScanFrom(SubSeq(s, i + 2, Len(s)), Append(acc, DropCR(Slice(s, 0, i))))

ScanLines(text) == ScanFrom(text, <<>>)

(***************************************************************************)
(* The label injector of the raw-text collector.                           *)
(***************************************************************************)

\* the value a panicking call yields (no byte sequence equals it): the
\* goroutine of the handler unwinds
PANIC == <<"runtime error: slice bounds out of range">>

\* the permutations of a finite set, as sequences: the orders in which a Go
\* `range` over a map may visit its keys
Orders(S) ==
    {o \in [1..Cardinality(S) -> S] : \A i, j \in 1..Cardinality(S) : o[i] = o[j] => i = j}

\* the labels string of addCustomLabels, keys visited in `order`
RECURSIVE LabelsStrFrom(_, _, _)
LabelsStrFrom(labels, order, first) ==
    IF order = <<>> THEN <<>>
    ELSE (IF first THEN <<>> ELSE <<",">>)
         \o Head(order) \o <<"=", "\"">> \o labels[Head(order)] \o <<"\"">>
         \o LabelsStrFrom(labels, Tail(order), FALSE)

LabelsStr(labels, order) == LabelsStrFrom(labels, order, TRUE)

\* one iteration of the scanner loop of addCustomLabels: the text appended to
\* the result for `line`, or PANIC when the slice expression is out of range
RelabelLine(line, labelsStr) ==
    IF HasPrefix(line, <<"#">>) \/ TrimSpace(line) = <<>>
    THEN line \o <<"\n">>
    ELSE LET parts == Fields(line) IN
         IF Len(parts) < 2
         THEN line \o <<"\n">>
         ELSE LET metricPart == parts[1]
                  rest == Join(Tail(parts), <<" ">>)
              IN IF Contains(metricPart, "{")
                 THEN LET idx == Index(metricPart, "{") IN
                      IF idx + 1 > Len(metricPart) - 1
                      THEN PANIC
                      ELSE Slice(metricPart, 0, idx) \o <<"{">>
                           \o Slice(metricPart, idx + 1, Len(metricPart) - 1)
                           \o <<",">> \o labelsStr \o <<"}", " ">> \o rest \o <<"\n">>
                 ELSE metricPart \o <<"{">> \o labelsStr \o <<"}", " ">> \o rest \o <<"\n">>

RECURSIVE RelabelLines(_, _)
RelabelLines(lines, labelsStr) ==
    IF lines = <<>> THEN <<>>
    ELSE LET h == RelabelLine(Head(lines), labelsStr) IN
         IF h = PANIC THEN PANIC
         ELSE LET t == RelabelLines(Tail(lines), labelsStr) IN
              IF t = PANIC THEN PANIC ELSE h \o t

\* addCustomLabelsText without the early return for an empty map
addCustomLabelsTextNoReturn(labels, order, metricsText) ==
    RelabelLines(ScanLines(metricsText), LabelsStr(labels, order))

\* addCustomLabels of the raw-text collector, the map visited in `order`
addCustomLabelsText(labels, order, metricsText) ==
    IF Cardinality(DOMAIN labels) = 0
    THEN metricsText
    ELSE RelabelLines(ScanLines(metricsText), LabelsStr(labels, order))

(***************************************************************************)
(* The label injector and the parser of the MetricFamily collector.        *)
(* A family is [name, metric], a metric is [label, value], a label pair is *)
(* [name, value]; label names and values are byte sequences.               *)
(***************************************************************************)

\* customLabels of addCustomLabels: one LabelPair per key, in `order`
CustomLabels(labels, order) ==
    [i \in 1..Len(order) |-> [name |-> order[i], value |-> labels[order[i]]]]

\* the loop body of addCustomLabels: metric.Label = append(metric.Label, customLabels...)
AppendLabels(metric, customLabels) ==
    [label |-> metric.label \o customLabels, value |-> metric.value]

\* addCustomLabels of the MetricFamily collector
addCustomLabelsFamilies(labels, order, families) ==
    IF Cardinality(DOMAIN labels) = 0
    THEN families
    ELSE [f \in 1..Len(families) |->
            [name |-> families[f].name,
             metric |-> [m \in 1..Len(families[f].metric) |->
                            AppendLabels(families[f].metric[m], CustomLabels(labels, order))]]]

\* the families the argument of addCustomLabels points to once the call has
\* returned: the loop assigns metric.Label in the metrics it was given, and
\* the slice it returns is its argument
ArgumentAfter(labels, order, families) == addCustomLabelsFamilies(labels, order, families)

\* parseMetrics: TextToMetricFamilies returns a map keyed by family name,
\* which the loop copies into a slice in the order `order` of the map's keys
parseMetrics(body, order) ==
    [i \in 1..Len(order) |-> CHOOSE f \in {body[k] : k \in 1..Len(body)} : f.name = order[i]]

\* the names of the families of a parsed body: the keys of the parser's map
FamilyNames(body) == {body[k].name : k \in 1..Len(body)}

(***************************************************************************)
(* A reader of exposition lines: what a scraper, and the text parser of    *)
(* the MetricFamily collector, find in a line: the metric name, the label  *)
(* pairs and the tokens after them.                                        *)
(***************************************************************************)

\* the length of the metric name a line starts with
RECURSIVE NameLen(_)
NameLen(s) == IF s = <<>> \/ Head(s) = "{" \/ IsSpace(Head(s)) THEN 0 ELSE 1 + NameLen(Tail(s))

\* the position of the first quote of s that no backslash escapes, 0 if none
RECURSIVE QuoteAt(_, _)
QuoteAt(s, i) ==
    IF i > Len(s) THEN 0
    ELSE IF s[i] = "\\" THEN QuoteAt(s, i + 2)
    ELSE IF s[i] = "\"" THEN i
    ELSE QuoteAt(s, i + 1)

\* the position of the brace that closes a label list, 0 if none: the first
\* "}" of s at or after i that is outside the quoted values
RECURSIVE CloseBrace(_, _)
CloseBrace(s, i) ==
    IF i > Len(s) THEN 0
    ELSE IF s[i] = "}" THEN i
    ELSE IF s[i] = "\""
         THEN LET q == QuoteAt(s, i + 1) IN IF q = 0 THEN 0 ELSE CloseBrace(s, q + 1)
         ELSE CloseBrace(s, i + 1)

\* a label name as a scraper accepts it
IsLabelName(k) == k # <<>> /\ \A i \in 1..Len(k) : k[i] \notin {",", "\"", "{", "}", "=", " "}

Unreadable == [ok |-> FALSE, pairs |-> <<>>]

\* the label pairs of the inside of a label list: name="value" pairs with
\* commas between them
RECURSIVE ReadPairs(_, _)
ReadPairs(s, acc) ==
    LET t == TrimLeft(s) IN
    IF t = <<>> THEN [ok |-> TRUE, pairs |-> acc]
    ELSE LET eq == Index(t, "=") IN
         IF eq < 1 THEN Unreadable
         ELSE LET key == TrimSpace(Slice(t, 0, eq))
                  val == TrimLeft(Slice(t, eq + 1, Len(t)))
              IN IF ~IsLabelName(key) \/ val = <<>> \/ Head(val) # "\"" THEN Unreadable
                 ELSE LET q == QuoteAt(val, 2) IN
                      IF q = 0 THEN Unreadable
                      ELSE LET pair == [name |-> key, value |-> SubSeq(val, 2, q - 1)]
                               rest == TrimLeft(Slice(val, q, Len(val)))
                           IN IF rest = <<>> THEN [ok |-> TRUE, pairs |-> Append(acc, pair)]
                              ELSE IF Head(rest) = ","
                                   THEN ReadPairs(Tail(rest), Append(acc, pair))
                                   ELSE Unreadable

\* what a scraper reads in a data line
ReadSample(line) ==
    LET n == NameLen(line)
        after == SubSeq(line, n + 1, Len(line))
    IN IF after # <<>> /\ Head(after) = "{"
       THEN LET close == CloseBrace(after, 2) IN
            IF close = 0
            THEN [ok |-> FALSE, name |-> SubSeq(line, 1, n), list |-> TRUE, pairs |-> <<>>,
                  tokens |-> <<>>]
            ELSE LET read == ReadPairs(SubSeq(after, 2, close - 1), <<>>) IN
                 [ok |-> read.ok /\ n > 0, name |-> SubSeq(line, 1, n), list |-> TRUE,
                  pairs |-> read.pairs, tokens |-> Fields(Slice(after, close, Len(after)))]
       ELSE [ok |-> n > 0, name |-> SubSeq(line, 1, n), list |-> FALSE, pairs |-> <<>>,
             tokens |-> Fields(after)]

\* a line of a body that is neither a comment nor blank
IsData(line) == ~HasPrefix(line, <<"#">>) /\ TrimSpace(line) # <<>>

\* TextParser: a data line it stops at with an error: no metric name, a
\* label list it cannot read, or no value after the name ("expected float as
\* value"); a value may be followed by a timestamp
LineError(line) ==
    LET s == ReadSample(line) IN ~s.ok \/ Len(s.tokens) \notin {1, 2}

\* TextParser: the families of data lines, each sample under the family of
\* its name; a family is listed where its first sample is
RECURSIVE FamiliesFrom(_, _)
FamiliesFrom(lines, acc) ==
    IF lines = <<>> THEN acc
    ELSE LET s == ReadSample(Head(lines))
             metric == [label |-> s.pairs, value |-> s.tokens]
             at == {i \in 1..Len(acc) : acc[i].name = s.name}
         IN FamiliesFrom(Tail(lines),
                IF at = {}
                THEN Append(acc, [name |-> s.name, metric |-> <<metric>>])
                ELSE [acc EXCEPT ![CHOOSE i \in at : TRUE].metric = Append(@, metric)])

\* expfmt.TextParser.TextToMetricFamilies: the families of a body, or an
\* error when a data line cannot be parsed
TextToMetricFamilies(text) ==
    LET data == SelectSeq(ScanLines(text), IsData) IN
    IF \E i \in 1..Len(data) : LineError(data[i])
    THEN [families |-> <<>>, err |-> TRUE]
    ELSE [families |-> FamiliesFrom(data, <<>>), err |-> FALSE]

(***************************************************************************)
(* Configuration.                                                          *)
(***************************************************************************)

\* byte sequences used as label keys and values
Cluster == <<"c", "l", "u", "s", "t", "e", "r">>
Env == <<"e", "n", "v">>
C1v == <<"c", "1">>
Prod == <<"p">>

NoLabels == <<>>
OneLabel == [k \in {Cluster} |-> C1v]
TwoLabels == [k \in {Cluster, Env} |-> IF k = Cluster THEN C1v ELSE Prod]

\* the `labels` sections a configuration is drawn from
LabelSets == {NoLabels, OneLabel, TwoLabels}

\* a label value with a quote and a backslash in it: cluster: '"\'
QuoteBackslash == <<"\"", "\\">>
QuotedLabel == [k \in {Cluster} |-> QuoteBackslash]

\* GetEnabledEndpoints without the test of endpoint.Enabled
GetEnabledEndpointsAll(endpoints) == endpoints

\* Config.GetEnabledEndpoints
GetEnabledEndpoints(endpoints) == SelectSeq(endpoints, LAMBDA e : e.Enabled)

(***************************************************************************)
(* The scrape state machine.                                               *)
(***************************************************************************)

\* the clients whose /metrics requests the server handles, each in a
\* goroutine of its own
Clients == {"c1", "c2"}

\* endpoint names a configuration may use; Validate asks only that a name is
\* not empty, so two endpoints may carry the same name
EndpointNames == {"nodes", "jobs", "scheduler"}

\* the two collectors of the repository
Variants == {"text", "families"}

VARIABLES
    variant,        \* which collector is linked in
    Endpoints,      \* Config.Endpoints
    Labels,         \* Config.Labels
    ScrapeSuccess,  \* Registry.ScrapeSuccess: endpoint name -> 0 or 1, -1 while unset
    ScrapeErrors,   \* Registry.ScrapeErrors: endpoint name -> count
    ScrapeDuration, \* Registry.ScrapeDuration: endpoint name -> observations
    scrapes,        \* /metrics requests accepted so far
    pc,             \* per client: "idle", "collect", "done" or "aborted"
    next,           \* per client: position in enabledEndpoints of the next fetch
    results,        \* per client: the results map of CollectAll
    fetched,        \* per client: the fetches this scrape made, in order
    status,         \* per client: status of the response, 0 when none was sent
    body,           \* per client: what was written to the response, in order
    failures,       \* endpoint name -> fetches that returned an error, ever
    cancelled,      \* per client: the context of the scrape is done
    inflight,       \* per client: a request to an endpoint is out, unanswered
    injIn,          \* label injector alone: the upstream body
    injOut,         \* label injector alone: its invocations, each [in, out]
    returned,       \* per client: what collectEndpoint returned, the loop body not yet run
    lastFetch,      \* endpoint name -> 1 or 0 as the fetch that returned last succeeded, -1 while none
    cfg,            \* Load: the Config yaml.Unmarshal filled, as Validate leaves it
    validateErr,    \* Load: what cfg.Validate() returned, "uncalled" before the call
    enabledEndpoints, \* what GetEnabledEndpoints returned on cfg, and whether it was called
    request,        \* per client: the request the server handled last
    route,          \* per client: the handler of the mux that request reached, "none" if none
    authenticate,   \* per client: the response carries a WWW-Authenticate header
    wrw,            \* per client: statusCode of the responseWriterWrapper, 0 without wrapper
    HTTPRequestsTotal, \* Registry.HTTPRequestsTotal: status label -> count
    mainPc,         \* where the main goroutine is, from the go statement on
    startPc,        \* where the goroutine that calls srv.Start() is
    server,         \* Server.server: "nil" or "set"
    inShutdown,     \* Shutdown was called on the http.Server
    quit,           \* the channel quit: the signal it holds, "none" if empty
    startErr,       \* what srv.Start() returned, "none" while it has not
    exitCode,       \* how the process ended, "running" while it has not
    log             \* the messages logged from the go statement on, in order

configVars == <<variant, Endpoints, Labels>>
registryVars == <<ScrapeSuccess, ScrapeErrors, ScrapeDuration, failures>>
scrapeVars == <<scrapes, pc, next, results, fetched, status, body, cancelled, inflight>>
injVars == <<injIn, injOut>>
gaugeVars == <<returned, lastFetch>>
loadVars == <<cfg, validateErr, enabledEndpoints>>
procVars == <<mainPc, startPc, server, inShutdown, quit, startErr, exitCode, log>>
sideVars == <<injVars, loadVars, procVars>>
httpVars == <<request, route, authenticate, wrw, HTTPRequestsTotal>>
vars == <<configVars, registryVars, scrapeVars, sideVars, gaugeVars, httpVars>>

\* an EndpointConfig; the path stands for the text after the base URL
Endpoint(name, path, enabled) == [Name |-> name, Path |-> path, Enabled |-> enabled]

\* the endpoint lists a configuration is drawn from: one endpoint, two and
\* three endpoints, disabled endpoints, none enabled, and a name used twice
EndpointLists ==
    { <<Endpoint("nodes", 1, TRUE)>>,
      <<Endpoint("nodes", 1, TRUE), Endpoint("jobs", 2, TRUE)>>,
      <<Endpoint("nodes", 1, FALSE), Endpoint("jobs", 2, TRUE)>>,
      <<Endpoint("nodes", 1, FALSE), Endpoint("jobs", 2, FALSE)>>,
      <<Endpoint("nodes", 1, TRUE), Endpoint("nodes", 2, TRUE)>>,
      <<Endpoint("nodes", 1, TRUE), Endpoint("jobs", 2, FALSE), Endpoint("scheduler", 3, TRUE)>>,
      <<Endpoint("nodes", 1, TRUE), Endpoint("jobs", 2, TRUE), Endpoint("scheduler", 3, TRUE)>> }

\* the part of Config.Validate that looks at the endpoint list
ValidEndpoints(endpoints) ==
    /\ Len(endpoints) # 0
    /\ \A i \in 1..Len(endpoints) : endpoints[i].Name # "" /\ endpoints[i].Path # 0

\* what the upstream answers on a path with status 200
MetricOf(path) == <<"a", "b", "c">>[path]

\* a body the raw-text collector relabels without trouble
GoodText(path) == <<MetricOf(path), " ", "1", "\n">>

\* a body whose data line has a blank after the opening brace
BlankAfterBrace(path) ==
    <<MetricOf(path), "{", " ", "x", "=", "\"", "y", "\"", "}", " ", "1", "\n">>

\* a body with a data line of one token between two data lines
MalformedLine(path) ==
    <<MetricOf(path), " ", "1", "\n", MetricOf(path), "\n", MetricOf(path), " ", "2", "\n">>

\* the bodies the upstream answers with
TextBodies(path) == {GoodText(path), BlankAfterBrace(path), MalformedLine(path)}

\* the statuses other than 200 the upstream answers with: another 2xx, a
\* 3xx the client does not follow, a 5xx
OtherStatuses == {204, 304, 500}

\* what comes of c.client.Do(req) and of reading resp.Body: Do returns an
\* error, or a response with its status and, for a 200, its body, which is
\* read to its end or breaks off with an error
DoFailed ==
    [DoErr |-> TRUE, CtxErr |-> FALSE, StatusCode |-> 0, Body |-> <<>>, ReadErr |-> FALSE]
Response(StatusCode, text, readErr) ==
    [DoErr |-> FALSE, CtxErr |-> FALSE, StatusCode |-> StatusCode, Body |-> text,
     ReadErr |-> readErr]

Responses(path) ==
    {DoFailed}
        \cup {Response(st, <<>>, FALSE) : st \in OtherStatuses}
        \cup {Response(200, b, FALSE) : b \in TextBodies(path)}
        \cup {Response(200, GoodText(path), TRUE)}

\* the error value of a call that succeeded
nil == "nil"

\* what a call of collectEndpoint comes to: it returns (metrics, err), or
\* it panics
Returned(metrics, err) == [metrics |-> metrics, err |-> err, panicked |-> FALSE]
Panicked == [metrics |-> <<>>, err |-> nil, panicked |-> TRUE]

\* StatusNotOK as Health tests the status: any 2xx or 3xx passes
StatusNotOKHealth(StatusCode) == StatusCode < 200 \/ StatusCode >= 400

\* resp.StatusCode != http.StatusOK
StatusNotOK(StatusCode) == StatusCode # 200

\* collectEndpoint: what a call comes to when the upstream does `resp`; the
\* maps are visited in some order
collectEndpoint(endpoint, resp) ==
    IF resp.DoErr
    THEN {Returned(<<>>, "failed to fetch metrics")}
    ELSE IF StatusNotOK(resp.StatusCode)
    THEN {Returned(<<>>, "unexpected status code")}
    ELSE IF variant = "text"
    THEN IF resp.ReadErr
         THEN {Returned(<<>>, "failed to read response")}
         ELSE {LET metricsText == addCustomLabelsText(Labels, o, resp.Body) IN
               IF metricsText = PANIC THEN Panicked ELSE Returned(metricsText, nil) :
                  o \in Orders(DOMAIN Labels)}
    ELSE LET parsed == TextToMetricFamilies(resp.Body) IN
         IF resp.ReadErr \/ parsed.err
         THEN {Returned(<<>>, "failed to parse metrics")}
         ELSE {Returned(addCustomLabelsFamilies(Labels, o,
                            parseMetrics(parsed.families, po)), nil) :
                  o \in Orders(DOMAIN Labels),
                  po \in Orders(FamilyNames(parsed.families))}

\* ResultsMap as if results were a field of the Collector: one map for all
\* calls of CollectAll
ResultsMapOfCollector(c) == "c1"

\* the map a call of CollectAll on behalf of client c builds and returns:
\* `results` is a local variable, so each call has a map of its own
ResultsMap(c) == c

\* make(map...) with the map an earlier scrape of the client left
MakeResultsKept(earlier) == earlier

\* results := make(map...) of CollectAll: a new, empty map, whatever map an
\* earlier call of CollectAll built
MakeResults(earlier) == <<>>

\* m[k] = v of a Go map
MapSet(m, k, v) == [x \in DOMAIN m \cup {k} |-> IF x = k THEN v ELSE m[x]]

\* the loop body of CollectAll after collectEndpoint returned: the gauge
SuccessAfter(success, name, err) ==
    [success EXCEPT ![name] = IF err # nil THEN 0 ELSE 1]

\* ErrorsAfter with the `continue` branch's Inc() moved out of the `if`
ErrorsAfterIncAlways(errors, name, err) == [errors EXCEPT ![name] = @ + 1]

\* the loop body of CollectAll after collectEndpoint returned: the counter
ErrorsAfter(errors, name, err) ==
    IF err # nil THEN [errors EXCEPT ![name] = @ + 1] ELSE errors

\* the loop body of CollectAll after collectEndpoint returned: the map
ResultsAfter(res, name, metrics, err) ==
    IF err # nil THEN res ELSE MapSet(res, name, metrics)

\* timer.ObserveDuration() of the loop body of CollectAll
DurationAfter(duration, name) == [duration EXCEPT ![name] = @ + 1]

\* the error CollectAll returns with its results
CollectAllErr(fetches) == nil

\* what the exporter's own registry adds to the response
SelfMetrics == <<"# promhttp.Handler()">>

\* the units WriteMetrics writes, the map visited in `order`: one Write per
\* endpoint (raw text) or one Encode per family (families)
RECURSIVE WriteMetrics(_, _)
WriteMetrics(metricsMap, order) ==
    IF order = <<>> THEN <<>>
    ELSE (IF variant = "text" THEN <<metricsMap[Head(order)]>> ELSE metricsMap[Head(order)])
         \o WriteMetrics(metricsMap, Tail(order))

(***************************************************************************)
(* Config.Validate, on the Config that yaml.Unmarshal filled.              *)
(***************************************************************************)

Digits == {"0", "1", "2", "3", "4", "5", "6", "7", "8", "9"}

\* unitMap of time.ParseDuration, the units written in ASCII
UnitMap == {<<"n", "s">>, <<"u", "s">>, <<"m", "s">>, <<"s">>, <<"m">>, <<"h">>}

\* the digits of s from position i on
RECURSIVE DigitsLen(_, _)
DigitsLen(s, i) ==
    IF i <= Len(s) /\ s[i] \in Digits THEN 1 + DigitsLen(s, i + 1) ELSE 0

\* the bytes of s from position i on up to a digit or a point: a unit
RECURSIVE UnitLen(_, _)
UnitLen(s, i) ==
    IF i <= Len(s) /\ s[i] \notin Digits /\ s[i] # "." THEN 1 + UnitLen(s, i + 1) ELSE 0

\* the loop of time.ParseDuration from position i <= Len(s) on: a number
\* with an optional fraction, a unit of unitMap, and so on to the end
RECURSIVE DurationGroups(_, _)
DurationGroups(s, i) ==
    LET pl == DigitsLen(s, i)
        j == i + pl
        point == j <= Len(s) /\ s[j] = "."
        fl == IF point THEN DigitsLen(s, j + 1) ELSE 0
        k == IF point THEN j + 1 + fl ELSE j
        ul == UnitLen(s, k)
    IN  /\ pl + fl > 0
        /\ ul > 0
        /\ SubSeq(s, k, k + ul - 1) \in UnitMap
        /\ (k + ul > Len(s) \/ DurationGroups(s, k + ul))

\* time.ParseDuration: the error it returns
ParseDuration(s) ==
    LET t == IF s # <<>> /\ s[1] \in {"-", "+"} THEN Tail(s) ELSE s IN
    IF t = <<"0">> \/ (t # <<>> /\ DurationGroups(t, 1))
    THEN nil ELSE "time: invalid duration"

\* the port test of Validate with `<` for `<=`
PortOutOfRangeZero(port) == port < 0 \/ port > 65535

\* c.Server.Port <= 0 || c.Server.Port > 65535
PortOutOfRange(port) == port <= 0 \/ port > 65535

\* validLevels of Validate
ValidLevels == {"debug", "info", "warn", "error"}

\* Validate returns `err` and leaves the Config as `after`
Validated(err, after) == [err |-> err, cfg |-> after]

\* Config.Validate: the first test that fails gives the error; the defaults
\* of the logging section are written into the Config
Validate(c) ==
    IF c.Slurm.URL = "" THEN Validated("slurm.url is required", c)
    ELSE IF c.Slurm.Timeout = <<>> THEN Validated("slurm.timeout is required", c)
    ELSE IF ParseDuration(c.Slurm.Timeout) # nil
    THEN Validated("invalid slurm.timeout format", c)
    ELSE IF PortOutOfRange(c.Server.Port)
    THEN Validated("server.port must be between 1 and 65535", c)
    ELSE IF /\ c.Server.BasicAuth.Enabled
            /\ (c.Server.BasicAuth.Username = "" \/ c.Server.BasicAuth.Password = "")
    THEN Validated("basic auth is enabled but username or password is empty", c)
    ELSE IF /\ c.Server.SSL.Enabled
            /\ (c.Server.SSL.CertFile = "" \/ c.Server.SSL.KeyFile = "")
    THEN Validated("ssl is enabled but cert_file or key_file is empty", c)
    ELSE IF Len(c.Endpoints) = 0
    THEN Validated("at least one endpoint must be configured", c)
    ELSE IF ~ValidEndpoints(c.Endpoints)
    THEN Validated("endpoint: name or path is required", c)
    ELSE LET leveled == IF c.Logging.Level = ""
                        THEN [c EXCEPT !.Logging.Level = "info"] ELSE c IN
         IF leveled.Logging.Level \notin ValidLevels
         THEN Validated("logging.level must be one of: debug, info, warn, error", leveled)
         ELSE Validated(nil, IF leveled.Logging.Output = ""
                             THEN [leveled EXCEPT !.Logging.Output = "stdout"]
                             ELSE leveled)

\* the sections of a Config
BasicAuthConfig(enabled, username, password) ==
    [Enabled |-> enabled, Username |-> username, Password |-> password]
SSLConfig(enabled, certFile, keyFile) ==
    [Enabled |-> enabled, CertFile |-> certFile, KeyFile |-> keyFile]

\* the values a configuration file is drawn from, section by section
URLs == {"", "http://localhost:6817"}
Timeouts ==
    { <<>>, <<"1", "0", "s">>, <<"1", "0">>, <<"a", "b", "c">>,
      <<"1", "m", "3", "0", "s">>, <<"-", "1", ".", "5", "h">> }
Ports == {-1, 0, 1, 8080, 65535, 65536}
BasicAuths ==
    { BasicAuthConfig(FALSE, "", ""), BasicAuthConfig(TRUE, "admin", "password"),
      BasicAuthConfig(TRUE, "admin", "") }
SSLs ==
    { SSLConfig(FALSE, "", ""), SSLConfig(TRUE, "cert.pem", "key.pem"),
      SSLConfig(TRUE, "cert.pem", "") }
ConfigEndpoints ==
    { <<>>,
      <<Endpoint("jobs", 1, TRUE)>>,
      <<Endpoint("jobs", 1, TRUE), Endpoint("nodes", 2, FALSE), Endpoint("partitions", 3, TRUE)>>,
      <<Endpoint("jobs", 1, FALSE), Endpoint("nodes", 2, FALSE)>>,
      <<Endpoint("jobs", 1, TRUE), Endpoint("", 2, TRUE)>>,
      <<Endpoint("jobs", 1, TRUE), Endpoint("nodes", 0, TRUE)>> }
Levels == {"", "info", "error", "trace"}
Outputs == {"", "stdout"}

Configs ==
    [ Slurm : [URL : URLs, Timeout : Timeouts],
      Server : [Port : Ports, BasicAuth : BasicAuths, SSL : SSLs],
      Endpoints : ConfigEndpoints,
      Logging : [Level : Levels, Output : Outputs] ]

\* the "valid config" of TestValidate
ValidConfig ==
    [ Slurm |-> [URL |-> "http://localhost:6817", Timeout |-> <<"1", "0", "s">>],
      Server |-> [Port |-> 8080, BasicAuth |-> BasicAuthConfig(TRUE, "admin", "password"),
                  SSL |-> SSLConfig(FALSE, "", "")],
      Endpoints |-> <<Endpoint("jobs", 1, TRUE)>>,
      Logging |-> [Level |-> "info", Output |-> "stdout"] ]

\* GetEnabledEndpoints has not been called
NotListed == [called |-> FALSE, value |-> <<>>]

\* no call of collectEndpoint has returned that the loop body has yet to handle
NoFetch == [response |-> DoFailed, outcome |-> Panicked]

(***************************************************************************)
(* The HTTP server: basic auth, the mux, the instrumented response writer. *)
(***************************************************************************)

\* a request: its path and what its Authorization header holds
HTTPRequest(path, authorization) == [Path |-> path, Authorization |-> authorization]
NoAuthorization == [Scheme |-> "", Username |-> "", Password |-> ""]
Basic(username, password) ==
    [Scheme |-> "Basic", Username |-> username, Password |-> password]
Bearer == [Scheme |-> "Bearer", Username |-> "", Password |-> ""]

\* no request yet
NoRequest == HTTPRequest("", NoAuthorization)

\* the /metrics request of a scraper that has the credentials of ValidConfig
MetricsRequest == HTTPRequest("/metrics", Basic("admin", "password"))

\* the requests clients send
Paths == {"/", "/metrics", "/health"}
Authorizations ==
    { NoAuthorization, Bearer, Basic("admin", "password"), Basic("admin", "wrong"),
      Basic("root", "password"), Basic("admin", "") }
Requests == {HTTPRequest(p, a) : p \in Paths, a \in Authorizations}

\* r.BasicAuth() of net/http
RequestBasicAuth(r) ==
    IF r.Authorization.Scheme = "Basic"
    THEN [username |-> r.Authorization.Username, password |-> r.Authorization.Password,
          ok |-> TRUE]
    ELSE [username |-> "", password |-> "", ok |-> FALSE]

\* subtle.ConstantTimeCompare
ConstantTimeCompare(x, y) == IF x = y THEN 1 ELSE 0

\* the test of basicAuthMiddleware with the password left out
UnauthorizedUsernameOnly(r) ==
    LET a == RequestBasicAuth(r) IN
    ~a.ok \/ ConstantTimeCompare(a.username, cfg.Server.BasicAuth.Username) # 1

\* basicAuthMiddleware: !ok || usernameMatch != 1 || passwordMatch != 1
Unauthorized(r) ==
    LET a == RequestBasicAuth(r)
        usernameMatch == ConstantTimeCompare(a.username, cfg.Server.BasicAuth.Username)
        passwordMatch == ConstantTimeCompare(a.password, cfg.Server.BasicAuth.Password)
    IN  ~a.ok \/ usernameMatch # 1 \/ passwordMatch # 1

\* the mux of Start: "/metrics" is served by the instrumented handleMetrics,
\* every other path by handleLandingPage
Mux(path) == IF path = "/metrics" THEN "metrics" ELSE "landing"

\* the status labels of the request counter
StatusLabels == {200, 401, 404, 500}

\* a responseWriterWrapper: its statusCode, and the status the underlying
\* ResponseWriter has sent, 0 while it has sent none
Wrapper(statusCode, sent) == [statusCode |-> statusCode, status |-> sent]

\* the wrapper instrumentHandler makes
NewWrapper == Wrapper(200, 0)

\* http.ResponseWriter.WriteHeader: the first status is the one sent
UnderlyingWriteHeader(w, statusCode) ==
    [w EXCEPT !.status = IF @ = 0 THEN statusCode ELSE @]

\* responseWriterWrapper.WriteHeader
WriteHeader(w, statusCode) ==
    IF w.statusCode = 0
    THEN UnderlyingWriteHeader([w EXCEPT !.statusCode = statusCode], statusCode)
    ELSE w

\* responseWriterWrapper.Write; the underlying Write sends 200 if no status
\* was sent before
Write(w) ==
    LET w1 == IF w.statusCode = 0
              THEN UnderlyingWriteHeader([w EXCEPT !.statusCode = 200], 200)
              ELSE w
    IN  UnderlyingWriteHeader(w1, 200)

\* http.Error(w, ..., code): WriteHeader(code), then the message is written
HttpError(w, code) == Write(WriteHeader(w, code))

\* what promhttp answers when the default gatherer returns an error
GatherError == <<"An error has occurred while serving metrics">>

\* handleMetrics goes on after a write error of WriteMetrics
WriteFailedIgnored(units, n) == FALSE

\* WriteMetrics returned an error: the client took n units, not all of them
WriteFailed(units, n) == n < Len(units)

\* the process before the go statement of main
NotStarted ==
    /\ mainPc = "go"
    /\ startPc = "unstarted"
    /\ server = "nil"
    /\ inShutdown = FALSE
    /\ quit = "none"
    /\ startErr = "none"
    /\ exitCode = "running"
    /\ log = <<>>

\* the process while it serves: main waits on quit, Start is in ListenAndServe
Serving ==
    /\ mainPc = "wait"
    /\ startPc = "serving"
    /\ server = "set"
    /\ inShutdown = FALSE
    /\ quit = "none"
    /\ startErr = "none"
    /\ exitCode = "running"
    /\ log = <<>>

\* the registry as NewRegistry made it, and no request handled yet
Idle ==
    /\ ScrapeSuccess = [n \in EndpointNames |-> -1]
    /\ ScrapeErrors = [n \in EndpointNames |-> 0]
    /\ ScrapeDuration = [n \in EndpointNames |-> 0]
    /\ failures = [n \in EndpointNames |-> 0]
    /\ scrapes = 0
    /\ pc = [c \in Clients |-> "idle"]
    /\ next = [c \in Clients |-> 1]
    /\ results = [c \in Clients |-> <<>>]
    /\ fetched = [c \in Clients |-> <<>>]
    /\ status = [c \in Clients |-> 0]
    /\ body = [c \in Clients |-> <<>>]
    /\ cancelled = [c \in Clients |-> FALSE]
    /\ inflight = [c \in Clients |-> FALSE]
    /\ returned = [c \in Clients |-> NoFetch]
    /\ lastFetch = [n \in EndpointNames |-> -1]
    /\ enabledEndpoints = NotListed
    /\ request = [c \in Clients |-> NoRequest]
    /\ route = [c \in Clients |-> "none"]
    /\ authenticate = [c \in Clients |-> FALSE]
    /\ wrw = [c \in Clients |-> 0]
    /\ HTTPRequestsTotal = [st \in StatusLabels |-> 0]

Init ==
    /\ variant \in Variants
    /\ Endpoints \in {l \in EndpointLists : ValidEndpoints(l)}
    /\ Labels \in LabelSets
    /\ Idle
    /\ Serving
    /\ injIn = <<>>
    /\ injOut = <<>>
    /\ cfg = ValidConfig
    /\ validateErr = nil

\* the handler of the http.Server on a request r of client c: the basic
\* auth middleware if enabled, then the mux.  A request that is refused gets
\* its 401 here, a request for another path than /metrics its page; for
\* /metrics instrumentHandler makes the wrapper and handleMetrics runs up to
\* the loop of CollectAll: the enabled endpoints are listed and the results
\* map is made
ServeHTTP(c, r) ==
    /\ pc[c] # "collect"
    /\ request' = [request EXCEPT ![c] = r]
    /\ fetched' = [fetched EXCEPT ![c] = <<>>]
    /\ cancelled' = [cancelled EXCEPT ![c] = FALSE]
    /\ inflight' = [inflight EXCEPT ![c] = FALSE]
    /\ IF cfg.Server.BasicAuth.Enabled /\ Unauthorized(r)
       THEN /\ authenticate' = [authenticate EXCEPT ![c] = TRUE]
            /\ status' = [status EXCEPT ![c] = 401]
            /\ body' = [body EXCEPT ![c] = <<"Unauthorized">>]
            /\ route' = [route EXCEPT ![c] = "none"]
            /\ wrw' = [wrw EXCEPT ![c] = 0]
            /\ pc' = [pc EXCEPT ![c] = "answered"]
            /\ UNCHANGED <<scrapes, next, results>>
       ELSE IF Mux(r.Path) = "metrics"
       THEN /\ scrapes < MaxScrapes
            /\ scrapes' = scrapes + 1
            /\ authenticate' = [authenticate EXCEPT ![c] = FALSE]
            /\ route' = [route EXCEPT ![c] = "metrics"]
            /\ wrw' = [wrw EXCEPT ![c] = NewWrapper.statusCode]
            /\ pc' = [pc EXCEPT ![c] = "collect"]
            /\ next' = [next EXCEPT ![c] = 1]
            /\ results' = [results EXCEPT ![ResultsMap(c)] = MakeResults(@)]
            /\ status' = [status EXCEPT ![c] = 0]
            /\ body' = [body EXCEPT ![c] = <<>>]
       ELSE /\ authenticate' = [authenticate EXCEPT ![c] = FALSE]
            /\ route' = [route EXCEPT ![c] = "landing"]
            /\ wrw' = [wrw EXCEPT ![c] = 0]
            /\ pc' = [pc EXCEPT ![c] = "answered"]
            /\ status' = [status EXCEPT ![c] = IF r.Path = "/" THEN 200 ELSE 404]
            /\ body' = [body EXCEPT ![c] =
                           IF r.Path = "/" THEN <<"landingPageHTML">>
                           ELSE <<"404 page not found">>]
            /\ UNCHANGED <<scrapes, next, results>>
    /\ UNCHANGED <<configVars, registryVars, sideVars, gaugeVars, HTTPRequestsTotal>>

\* a /metrics request with the credentials of the configuration arrives
ServeMetrics(c) == ServeHTTP(c, MetricsRequest)

\* the loop body of CollectAll once collectEndpoint has come to `r` on the
\* response `resp`: the panic unwinds the loop, a return is measured,
\* recorded in the registry and, without error, put into the results map
LoopBodyOf(c, resp, issued, r) ==
    LET endpoint == GetEnabledEndpoints(Endpoints)[next[c]] IN
       /\ fetched' = [fetched EXCEPT ![c] =
                         Append(@, [endpoint |-> endpoint, response |-> resp,
                                    issued |-> issued, outcome |-> r])]
       /\ IF r.panicked
          THEN \* the panic leaves the loop and the handler; net/http
               \* recovers it and closes the connection
               /\ pc' = [pc EXCEPT ![c] = "aborted"]
               /\ UNCHANGED <<registryVars, next, results>>
          ELSE /\ ScrapeDuration' = DurationAfter(ScrapeDuration, endpoint.Name)
               /\ ScrapeSuccess' = SuccessAfter(ScrapeSuccess, endpoint.Name, r.err)
               /\ ScrapeErrors' = ErrorsAfter(ScrapeErrors, endpoint.Name, r.err)
               /\ failures' = [failures EXCEPT ![endpoint.Name] =
                                  IF r.err # nil THEN @ + 1 ELSE @]
               /\ results' = [results EXCEPT ![ResultsMap(c)] =
                                 ResultsAfter(@, endpoint.Name, r.metrics, r.err)]
               /\ next' = [next EXCEPT ![c] = @ + 1]
               /\ UNCHANGED pc
       /\ UNCHANGED <<configVars, scrapes, status, body, cancelled, sideVars, httpVars>>

\* one iteration of the loop of CollectAll, from the return of Do on: what
\* collectEndpoint makes of `resp` and what the loop body does with it;
\* `issued` tells whether a request went out to the upstream
LoopBody(c, resp, issued) ==
    /\ \E r \in collectEndpoint(GetEnabledEndpoints(Endpoints)[next[c]], resp) :
          LoopBodyOf(c, resp, issued, r)
    /\ UNCHANGED gaugeVars

\* one iteration of the loop of CollectAll, the context of the scrape not
\* done before the iteration ends
CollectEndpoint(c) ==
    /\ pc[c] = "collect"
    /\ next[c] <= Len(GetEnabledEndpoints(Endpoints))
    /\ ~cancelled[c]
    /\ ~inflight[c]
    /\ \E resp \in Responses(GetEnabledEndpoints(Endpoints)[next[c]].Path) :
          LoopBody(c, resp, TRUE)
    /\ UNCHANGED inflight

\* the rest of handleMetrics once the loop of CollectAll has ended, and the
\* rest of instrumentHandler once handleMetrics has returned: the 500 branch,
\* or WriteMetrics and then the exporter's own metrics, which promhttp
\* writes or, `gatherErr`, answers with http.Error; the client takes every
\* Write (n units) or has gone away and takes none; all calls go to the
\* wrapper, whose statusCode labels the request counter
WriteResponseWith(c, gatherErr) ==
    /\ pc[c] = "collect"
    /\ next[c] > Len(GetEnabledEndpoints(Endpoints))
    /\ ~inflight[c]
    /\ pc' = [pc EXCEPT ![c] = "done"]
    /\ LET w0 == Wrapper(wrw[c], 0)
           After(w, written) ==
               /\ status' = [status EXCEPT ![c] = w.status]
               /\ wrw' = [wrw EXCEPT ![c] = w.statusCode]
               /\ body' = [body EXCEPT ![c] = written]
               /\ HTTPRequestsTotal' = [HTTPRequestsTotal EXCEPT ![w.statusCode] = @ + 1]
       IN
       IF CollectAllErr(fetched[c]) # nil
       THEN After(HttpError(w0, 500), <<"Failed to collect metrics">>)
       ELSE \E order \in Orders(DOMAIN results[ResultsMap(c)]) :
               LET units == WriteMetrics(results[ResultsMap(c)], order)
                   w1 == IF units # <<>> THEN Write(w0) ELSE w0
               IN
               \E n \in {0, Len(units)} :
                  IF WriteFailed(units, n)
                  THEN After(w1, SubSeq(units, 1, n))
                  ELSE IF gatherErr
                  THEN After(HttpError(w1, 500), SubSeq(units, 1, n) \o <<GatherError>>)
                  ELSE After(Write(w1), SubSeq(units, 1, n) \o <<SelfMetrics>>)
    /\ UNCHANGED <<configVars, registryVars, scrapes, next, results, fetched,
                   cancelled, inflight, sideVars, gaugeVars, request, route, authenticate>>

\* the same, the default gatherer of promhttp gathering without error
WriteResponse(c) == WriteResponseWith(c, FALSE)

\* one client, whose requests are served one after the other
Next == ServeMetrics("c1") \/ CollectEndpoint("c1") \/ WriteResponse("c1")

Spec == Init /\ [][Next]_vars

(***************************************************************************)
(* A scrape whose context ends before the scrape does: the client goes     *)
(* away, or the 30 s of context.WithTimeout in handleMetrics run out.  An  *)
(* iteration of the loop of CollectAll is taken in two steps here, the     *)
(* request going out and Do (or the read of the body) returning.           *)
(***************************************************************************)

\* the request of collectEndpoint as if made by http.NewRequest: it carries
\* context.Background(), which is never done
ctxDoneBackground(c) == FALSE

\* http.NewRequestWithContext(ctx, ...): the request carries the context
\* handleMetrics derived from r.Context(); Do and the reads of the body
\* return its error once it is done
ctxDone(c) == cancelled[c]

\* Do returns the error of the context
Canceled ==
    [DoErr |-> TRUE, CtxErr |-> TRUE, StatusCode |-> 0, Body |-> <<>>, ReadErr |-> FALSE]

\* Do returned a 200 response, and the read of its body returns the error of
\* the context
CanceledRead(path) ==
    [DoErr |-> FALSE, CtxErr |-> TRUE, StatusCode |-> 200, Body |-> GoodText(path),
     ReadErr |-> TRUE]

\* r.Context() is done, or the deadline of the scrape has passed
Cancel(c) ==
    /\ pc[c] = "collect"
    /\ ~cancelled[c]
    /\ cancelled' = [cancelled EXCEPT ![c] = TRUE]
    /\ UNCHANGED <<configVars, registryVars, scrapes, pc, next, results, fetched, status,
                   body, inflight, sideVars, gaugeVars, httpVars>>

\* collectEndpoint up to c.client.Do(req): the request goes out, or, the
\* context being done, Do returns at once and the loop body runs
SendRequest(c) ==
    /\ pc[c] = "collect"
    /\ next[c] <= Len(GetEnabledEndpoints(Endpoints))
    /\ ~inflight[c]
    /\ IF ctxDone(c)
       THEN LoopBody(c, Canceled, FALSE) /\ UNCHANGED inflight
       ELSE /\ inflight' = [inflight EXCEPT ![c] = TRUE]
            /\ UNCHANGED <<configVars, registryVars, scrapes, pc, next, results, fetched,
                           status, body, cancelled, sideVars, gaugeVars, httpVars>>

\* Do and the read of the body return, and the loop body runs: with what the
\* upstream answered, or with the error of the context
ReceiveResponse(c) ==
    /\ pc[c] = "collect"
    /\ inflight[c]
    /\ LET path == GetEnabledEndpoints(Endpoints)[next[c]].Path IN
       \E resp \in (IF ctxDone(c) THEN {Canceled, CanceledRead(path)} ELSE Responses(path)) :
          LoopBody(c, resp, TRUE)
    /\ inflight' = [inflight EXCEPT ![c] = FALSE]

InitCancel ==
    /\ Init
    /\ Endpoints = <<Endpoint("nodes", 1, TRUE), Endpoint("jobs", 2, TRUE),
                     Endpoint("scheduler", 3, TRUE)>>
    /\ Labels = OneLabel

NextCancel ==
    \/ ServeMetrics("c1")
    \/ Cancel("c1")
    \/ SendRequest("c1")
    \/ ReceiveResponse("c1")
    \/ WriteResponse("c1")

SpecCancel == InitCancel /\ [][NextCancel]_vars

(***************************************************************************)
(* Two clients whose requests are served at the same time, each by a       *)
(* goroutine of its own.                                                   *)
(***************************************************************************)

InitConcurrent ==
    /\ Init
    /\ Endpoints = <<Endpoint("nodes", 1, TRUE), Endpoint("jobs", 2, TRUE)>>
    /\ Labels = OneLabel

NextConcurrent ==
    \E c \in Clients : ServeMetrics(c) \/ CollectEndpoint(c) \/ WriteResponse(c)

SpecConcurrent == InitConcurrent /\ [][NextConcurrent]_vars

(***************************************************************************)
(* Two clients again, an iteration of the loop of CollectAll now taken in  *)
(* two steps: collectEndpoint returns (line 254), and later the loop body  *)
(* sets the gauge and the counter (lines 256-267).  Nothing orders the     *)
(* loop bodies of two calls of CollectAll as their fetches returned.       *)
(***************************************************************************)

\* collectEndpoint returns to the loop of CollectAll, or panics
ReturnFetch(c) ==
    /\ pc[c] = "collect"
    /\ next[c] <= Len(GetEnabledEndpoints(Endpoints))
    /\ returned[c] = NoFetch
    /\ LET endpoint == GetEnabledEndpoints(Endpoints)[next[c]] IN
       \E resp \in Responses(endpoint.Path) :
          \E r \in collectEndpoint(endpoint, resp) :
             IF r.panicked
             THEN LoopBodyOf(c, resp, TRUE, r) /\ UNCHANGED <<inflight, gaugeVars>>
             ELSE /\ returned' = [returned EXCEPT ![c] = [response |-> resp, outcome |-> r]]
                  /\ lastFetch' = [lastFetch EXCEPT ![endpoint.Name] =
                                       IF r.err = nil THEN 1 ELSE 0]
                  /\ UNCHANGED <<configVars, registryVars, scrapeVars, sideVars, httpVars>>

\* the loop body of CollectAll runs on what collectEndpoint returned
RecordFetch(c) ==
    /\ pc[c] = "collect"
    /\ returned[c] # NoFetch
    /\ LoopBodyOf(c, returned[c].response, TRUE, returned[c].outcome)
    /\ returned' = [returned EXCEPT ![c] = NoFetch]
    /\ UNCHANGED <<inflight, lastFetch>>

InitGauge ==
    /\ Init
    /\ Endpoints = <<Endpoint("nodes", 1, TRUE)>>
    /\ Labels = NoLabels

NextGauge ==
    \E c \in Clients :
       ServeMetrics(c) \/ ReturnFetch(c) \/ RecordFetch(c) \/ WriteResponse(c)

SpecGauge == InitGauge /\ [][NextGauge]_vars

(***************************************************************************)
(* Loading the configuration: Load validates the Config it unmarshalled,   *)
(* and the collector lists the enabled endpoints of a Config that passed.  *)
(***************************************************************************)

\* Load from cfg.Validate() on
Load ==
    /\ validateErr = "uncalled"
    /\ LET v == Validate(cfg) IN
       /\ validateErr' = v.err
       /\ cfg' = v.cfg
    /\ UNCHANGED <<configVars, registryVars, scrapeVars, injVars, gaugeVars, httpVars,
                   procVars, enabledEndpoints>>

\* c.config.GetEnabledEndpoints() of CollectAll, on the Config Load returned
ListEnabled ==
    /\ validateErr = nil
    /\ enabledEndpoints' = [called |-> TRUE, value |-> GetEnabledEndpoints(cfg.Endpoints)]
    /\ UNCHANGED <<configVars, registryVars, scrapeVars, injVars, gaugeVars, httpVars,
                   procVars, cfg, validateErr>>

InitLoad ==
    /\ cfg \in Configs
    /\ validateErr = "uncalled"
    /\ variant = "text"
    /\ Endpoints = <<Endpoint("nodes", 1, TRUE)>>
    /\ Labels = NoLabels
    /\ Idle
    /\ NotStarted
    /\ injIn = <<>>
    /\ injOut = <<>>

NextLoad == Load \/ ListEnabled

SpecLoad == InitLoad /\ [][NextLoad]_vars

(***************************************************************************)
(* The server with and without basic auth, its one client sending requests *)
(* of every kind, and the default gatherer failing or not.                 *)
(***************************************************************************)

\* ValidConfig with basic auth switched off
NoAuthConfig == [ValidConfig EXCEPT !.Server.BasicAuth = BasicAuthConfig(FALSE, "", "")]

InitHTTP ==
    /\ variant \in Variants
    /\ Endpoints = <<Endpoint("nodes", 1, TRUE)>>
    /\ Labels = NoLabels
    /\ Idle
    /\ Serving
    /\ injIn = <<>>
    /\ injOut = <<>>
    /\ cfg \in {ValidConfig, NoAuthConfig}
    /\ validateErr = nil

NextHTTP ==
    \/ \E r \in Requests : ServeHTTP("c1", r)
    \/ CollectEndpoint("c1")
    \/ \E gatherErr \in BOOLEAN : WriteResponseWith("c1", gatherErr)

SpecHTTP == InitHTTP /\ [][NextHTTP]_vars

(***************************************************************************)
(* The process from the go statement of main to its end: the goroutine     *)
(* that runs srv.Start(), and the main goroutine that waits for a signal   *)
(* and calls srv.Stop().  Nothing but the scheduler orders the two.        *)
(***************************************************************************)

Signals == {"SIGINT", "SIGTERM"}

\* the steps below leave everything but the process alone
ProcessOnly ==
    UNCHANGED <<configVars, registryVars, scrapeVars, injVars, loadVars, gaugeVars, httpVars>>

\* main: go func() { srv.Start() ... }() and the "exporter is ready" message
GoStart ==
    /\ exitCode = "running"
    /\ mainPc = "go"
    /\ mainPc' = "notify"
    /\ startPc' = "start"
    /\ log' = Append(log, "exporter is ready")
    /\ UNCHANGED <<server, inShutdown, quit, startErr, exitCode>>
    /\ ProcessOnly

\* main: quit is made and signal.Notify registers it
Notify ==
    /\ exitCode = "running"
    /\ mainPc = "notify"
    /\ mainPc' = "wait"
    /\ UNCHANGED <<startPc, server, inShutdown, quit, startErr, exitCode, log>>
    /\ ProcessOnly

\* a SIGINT or SIGTERM is delivered: before signal.Notify it ends the
\* process; after, it goes into quit unless quit is full
Signal(sig) ==
    /\ exitCode = "running"
    /\ IF mainPc \in {"go", "notify"}
       THEN exitCode' = sig /\ UNCHANGED quit
       ELSE /\ quit = "none"
            /\ quit' = sig
            /\ UNCHANGED exitCode
    /\ UNCHANGED <<mainPc, startPc, server, inShutdown, startErr, log>>
    /\ ProcessOnly

\* main: <-quit returns
ReceiveSignal ==
    /\ exitCode = "running"
    /\ mainPc = "wait"
    /\ quit # "none"
    /\ quit' = "none"
    /\ mainPc' = "stop"
    /\ log' = Append(log, "shutting down exporter...")
    /\ UNCHANGED <<startPc, server, inShutdown, startErr, exitCode>>
    /\ ProcessOnly

\* main: srv.Stop(shutdownCtx) up to the call of Shutdown on s.server; on a
\* nil s.server Shutdown dereferences nil and the process panics
Stop ==
    /\ exitCode = "running"
    /\ mainPc = "stop"
    /\ log' = Append(log, "stopping HTTP server")
    /\ IF server = "nil"
       THEN exitCode' = "panic" /\ UNCHANGED <<mainPc, inShutdown>>
       ELSE /\ inShutdown' = TRUE
            /\ mainPc' = "shutdown"
            /\ UNCHANGED exitCode
    /\ UNCHANGED <<startPc, server, quit, startErr>>
    /\ ProcessOnly

\* main: Shutdown returns, nil once the listeners are closed and the
\* connections idle, or the error of the context after its 10 seconds; on
\* an error main logs it and exits with 1
ShutdownReturns(err) ==
    /\ exitCode = "running"
    /\ mainPc = "shutdown"
    /\ IF err # nil
       THEN /\ log' = Append(log, "server shutdown failed")
            /\ exitCode' = "1"
            /\ mainPc' = "failed"
       ELSE /\ log' = Append(log, "exporter stopped successfully")
            /\ mainPc' = "stopped"
            /\ UNCHANGED exitCode
    /\ UNCHANGED <<startPc, server, inShutdown, quit, startErr>>
    /\ ProcessOnly

\* main returns
MainReturns ==
    /\ exitCode = "running"
    /\ mainPc = "stopped"
    /\ exitCode' = "0"
    /\ UNCHANGED <<mainPc, startPc, server, inShutdown, quit, startErr, log>>
    /\ ProcessOnly

\* Start up to the assignment of s.server
StartAssign ==
    /\ exitCode = "running"
    /\ startPc = "start"
    /\ server' = "set"
    /\ startPc' = "assigned"
    /\ log' = Append(log, "starting HTTP server")
    /\ UNCHANGED <<mainPc, inShutdown, quit, startErr, exitCode>>
    /\ ProcessOnly

\* Start: s.server.ListenAndServe() is called: it returns ErrServerClosed
\* if Shutdown was called before, or the error of net.Listen, or it serves
ListenAndServe ==
    /\ exitCode = "running"
    /\ startPc = "assigned"
    /\ \/ /\ inShutdown
          /\ startErr' = "ErrServerClosed"
          /\ startPc' = "returned"
       \/ /\ ~inShutdown
          /\ startErr' = "listen"
          /\ startPc' = "returned"
       \/ /\ ~inShutdown
          /\ startPc' = "serving"
          /\ UNCHANGED startErr
    /\ UNCHANGED <<mainPc, server, inShutdown, quit, exitCode, log>>
    /\ ProcessOnly

\* Start: ListenAndServe returns ErrServerClosed once Shutdown was called,
\* and Start returns that error
ServeReturns ==
    /\ exitCode = "running"
    /\ startPc = "serving"
    /\ inShutdown
    /\ startErr' = "ErrServerClosed"
    /\ startPc' = "returned"
    /\ UNCHANGED <<mainPc, server, inShutdown, quit, exitCode, log>>
    /\ ProcessOnly

\* the goroutine after srv.Start() returned: the error is not nil, "server
\* failed" is logged and the process exits with 1
ServerFailed ==
    /\ exitCode = "running"
    /\ startPc = "returned"
    /\ startErr # nil
    /\ log' = Append(log, "server failed")
    /\ exitCode' = "1"
    /\ startPc' = "exited"
    /\ UNCHANGED <<mainPc, server, inShutdown, quit, startErr>>
    /\ ProcessOnly

InitShutdown ==
    /\ variant \in Variants
    /\ Endpoints = <<Endpoint("nodes", 1, TRUE)>>
    /\ Labels = NoLabels
    /\ Idle
    /\ NotStarted
    /\ injIn = <<>>
    /\ injOut = <<>>
    /\ cfg \in {ValidConfig, NoAuthConfig}
    /\ validateErr = nil

NextShutdown ==
    \/ GoStart
    \/ Notify
    \/ \E sig \in Signals : Signal(sig)
    \/ ReceiveSignal
    \/ Stop
    \/ \E err \in {nil, "context deadline exceeded"} : ShutdownReturns(err)
    \/ MainReturns
    \/ StartAssign
    \/ ListenAndServe
    \/ ServeReturns
    \/ ServerFailed

SpecShutdown == InitShutdown /\ [][NextShutdown]_vars

(***************************************************************************)
(* The label injector alone: an upstream body and a `labels` section are   *)
(* drawn, and the injector is invoked on the body twice, as by two scrapes *)
(* of an unchanged upstream.                                               *)
(***************************************************************************)

SlurmNodesIdle ==
    <<"s", "l", "u", "r", "m", "_", "n", "o", "d", "e", "s", "_", "i", "d", "l", "e">>

\* the lines upstream bodies are made of
Unlabeled == SlurmNodesIdle \o <<" ", "5">>
UnlabeledStamped == <<"m", " ", "5", " ", "9">>
Labeled == <<"m", "{", "a", "=", "\"", "x", "\"", "}", " ", "5">>
LabeledStamped == <<"n", "{", "a", "=", "\"", "x", "\"", "}", " ", "5", " ", "9">>
Colliding == <<"m", "{">> \o Cluster \o <<"=", "\"", "u", "\"", "}", " ", "5">>
SpaceInValue == <<"m", "{", "a", "=", "\"", "x", " ", "y", "\"", "}", " ", "5">>
EmptyBraces == <<"m", "{", "}", " ", "5">>
BlankInBraces == <<"m", "{", " ", "a", "=", "\"", "x", "\"", "}", " ", "5">>
HelpLine == <<"#", " ", "H", "E", "L", "P", " ", "m", " ", "h">>
\* a HELP line of a body whose lines end in CR LF
HelpLineCR == HelpLine \o <<"\r">>
OneToken == <<"m">>
BlankLine == <<" ">>
\* m{a="\"\\"} 5: the value of a is a quote and a backslash, escaped
Escaped == <<"m", "{", "a", "=", "\"", "\\", "\"", "\\", "\\", "\"", "}", " ", "5">>

Lines ==
    {Unlabeled, UnlabeledStamped, Labeled, LabeledStamped, Colliding, SpaceInValue,
     EmptyBraces, BlankInBraces, HelpLine, HelpLineCR, OneToken, BlankLine, Escaped}

\* the text of a sequence of lines, each ended by a newline
RECURSIVE TextOf(_)
TextOf(lines) == IF lines = <<>> THEN <<>> ELSE Head(lines) \o <<"\n">> \o TextOf(Tail(lines))

\* the upstream bodies of the raw-text collector; a body may lack the
\* newline after its last line
Texts ==
    LET whole == UNION {{TextOf(ls) : ls \in [1..n -> Lines]} : n \in 0..MaxLines}
    IN whole \cup {SubSeq(t, 1, Len(t) - 1) : t \in {TextOf(<<l>>) : l \in Lines}}

\* the label lists of the samples of the MetricFamily collector's upstream
UpstreamLabels ==
    { <<>>,
      <<[name |-> <<"a">>, value |-> <<"x">>]>>,
      <<[name |-> Cluster, value |-> <<"u">>]>> }

\* the families of the MetricFamily collector's upstream: one sample, or two
UpstreamFamilies ==
    {[name |-> n, metric |-> <<[label |-> l, value |-> 5]>>] :
        n \in {"m", "n", "o"}, l \in UpstreamLabels}
        \cup
    {[name |-> n, metric |-> <<[label |-> <<>>, value |-> 5],
                               [label |-> UpstreamLabels2, value |-> 6]>>] :
        n \in {"m", "n", "o"}, UpstreamLabels2 \in {<<[name |-> <<"a">>, value |-> <<"x">>]>>}}

\* the upstream bodies of the MetricFamily collector: families in the order
\* in which the body lists them, no name twice
FamilyLists ==
    UNION {{fs \in [1..n -> UpstreamFamilies] :
                \A i, j \in 1..n : fs[i].name = fs[j].name => i = j}
             : n \in 1..MaxFamilies}

InitInject ==
    /\ variant \in Variants
    /\ Labels \in LabelSets \cup {QuotedLabel}
    /\ injIn \in (IF variant = "text" THEN Texts ELSE FamilyLists)
    /\ injOut = <<>>
    /\ Endpoints = <<Endpoint("nodes", 1, TRUE)>>
    /\ Idle
    /\ Serving
    /\ cfg = ValidConfig
    /\ validateErr = nil

\* collectEndpoint after a 200 response whose body was read: the raw-text
\* collector hands the body to addCustomLabels
InjectText ==
    /\ variant = "text"
    /\ Len(injOut) < 2
    /\ \E o \in Orders(DOMAIN Labels) :
          injOut' = Append(injOut, [in |-> injIn,
                                    out |-> addCustomLabelsText(Labels, o, injIn),
                                    after |-> injIn, reused |-> FALSE])
    /\ UNCHANGED <<configVars, registryVars, scrapeVars, injIn, gaugeVars, loadVars, httpVars,
                   procVars>>

\* collectEndpoint after a 200 response: the MetricFamily collector parses
\* the body and hands the families to addCustomLabels
InjectFamilies ==
    /\ variant = "families"
    /\ Len(injOut) < 2
    /\ \E o \in Orders(DOMAIN Labels), po \in Orders(FamilyNames(injIn)) :
          LET families == parseMetrics(injIn, po) IN
          injOut' = Append(injOut, [in |-> families,
                                    out |-> addCustomLabelsFamilies(Labels, o, families),
                                    after |-> ArgumentAfter(Labels, o, families),
                                    reused |-> FALSE])
    /\ UNCHANGED <<configVars, registryVars, scrapeVars, injIn, gaugeVars, loadVars, httpVars,
                   procVars>>

\* a caller that kept the families it passed to addCustomLabels passes them
\* again, as they are now
ReuseFamilies ==
    /\ variant = "families"
    /\ Len(injOut) = 1
    /\ \E o \in Orders(DOMAIN Labels) :
          LET families == injOut[1].after IN
          injOut' = Append(injOut, [in |-> families,
                                    out |-> addCustomLabelsFamilies(Labels, o, families),
                                    after |-> ArgumentAfter(Labels, o, families),
                                    reused |-> TRUE])
    /\ UNCHANGED <<configVars, registryVars, scrapeVars, injIn, gaugeVars, loadVars, httpVars,
                   procVars>>

NextInject == InjectText \/ InjectFamilies \/ ReuseFamilies

SpecInject == InitInject /\ [][NextInject]_vars

(***************************************************************************)
(* Properties of a scrape.                                                 *)
(***************************************************************************)

\* the elements of a sequence
Range(seq) == {seq[i] : i \in 1..Len(seq)}

\* the scrape of client c has ended: the handler returned or was unwound
ScrapeEnded(c) == pc[c] \in {"done", "aborted"}

\* a fetch that gave the endpoint's metrics / that failed with an error
Succeeded(f) == f.outcome.err = nil /\ ~f.outcome.panicked
Failed(f) == f.outcome.err # nil

\* the client took every Write of the response
FullyWritten(c) == body[c] # <<>> /\ body[c][Len(body[c])] = SelfMetrics

\* the units an endpoint's metrics are written as
UnitsOf(metrics) == IF variant = "text" THEN {metrics} ELSE {metrics[i] : i \in 1..Len(metrics)}

\* the units of the response of client c
Written(c) == {body[c][k] : k \in 1..Len(body[c])}

\* C1: partial-failure isolation. Whatever the outcomes of the fetches, a
\* scrape fetches every enabled endpoint, in order, and CollectAll returns
\* results holding the output of every endpoint that succeeded and no entry
\* for an endpoint that failed.
C1_PartialFailureIsolation ==
    \A c \in Clients :
        ScrapeEnded(c) =>
            LET enabled == GetEnabledEndpoints(Endpoints) IN
            /\ Len(fetched[c]) = Len(enabled)
            /\ \A i \in 1..Len(enabled) : fetched[c][i].endpoint = enabled[i]
            /\ pc[c] = "done"
            /\ \A i \in 1..Len(fetched[c]) :
                  LET f == fetched[c][i] IN
                  /\ Succeeded(f) =>
                        /\ f.endpoint.Name \in DOMAIN results[c]
                        /\ results[c][f.endpoint.Name] = f.outcome.metrics
                  /\ Failed(f) => f.endpoint.Name \notin DOMAIN results[c]

\* C2: a scrape in which any number of endpoints fail is answered with 200,
\* never with 500, and the response the client took holds the output of
\* every endpoint that succeeded.
C2_FailuresStillAnswer200 ==
    \A c \in Clients :
        ScrapeEnded(c) =>
            /\ status[c] = 200
            /\ FullyWritten(c) =>
                  \A i \in 1..Len(fetched[c]) :
                      Succeeded(fetched[c][i]) =>
                          UnitsOf(fetched[c][i].outcome.metrics) \subseteq Written(c)

\* the fetch a step adds to the scrape of client c
FetchedNow(c) == Len(fetched'[c]) = Len(fetched[c]) + 1
NewFetch(c) == fetched'[c][Len(fetched'[c])]

\* a step in which a fetch of the endpoint named n returned an error
FailedNow(n) ==
    \E c \in Clients : FetchedNow(c) /\ Failed(NewFetch(c)) /\ NewFetch(c).endpoint.Name = n

\* C3: the error counter of an endpoint goes up by exactly one in a step in
\* which a fetch of that endpoint fails, and is left alone by every other
\* step (a fetch that succeeds, a fetch of another endpoint); so it never
\* decreases and always equals the number of failed fetches of the endpoint.
C3_ErrorCounter ==
    /\ [](\A n \in EndpointNames : ScrapeErrors[n] = failures[n])
    /\ [][\A n \in EndpointNames :
            ScrapeErrors'[n] = IF FailedNow(n) THEN ScrapeErrors[n] + 1 ELSE ScrapeErrors[n]]_vars

\* C3, witness: after two scrapes the endpoint "nodes" has failed twice, and
\* another endpoint of the last scrape succeeded
C3_Witness ==
    /\ pc["c1"] = "done"
    /\ scrapes = 2
    /\ ScrapeErrors["nodes"] = 2
    /\ \E i \in 1..Len(fetched["c1"]) : Failed(fetched["c1"][i])
    /\ \E i \in 1..Len(fetched["c1"]) : Succeeded(fetched["c1"][i])

\* C4: every fetch of an enabled endpoint, whatever its outcome, records one
\* duration observation under the endpoint's name and sets the endpoint's
\* success gauge, to 1 when the fetch succeeded and to 0 when it failed.
C4_DurationAndGauge ==
    [][\A c \in Clients :
          FetchedNow(c) =>
              LET f == NewFetch(c) IN
              /\ ScrapeDuration'[f.endpoint.Name] = ScrapeDuration[f.endpoint.Name] + 1
              /\ Succeeded(f) => ScrapeSuccess'[f.endpoint.Name] = 1
              /\ Failed(f) => ScrapeSuccess'[f.endpoint.Name] = 0]_vars

\* the places of a unit in the response of client c
Places(c, u) == {k \in 1..Len(body[c]) : body[c][k] = u}

\* C5: the response lists the outputs of the endpoints that succeeded in the
\* order in which the configuration declares the endpoints: all of the
\* output of an endpoint comes before all of the output of a later one.
C5_DeclarationOrder ==
    \A c \in Clients :
        (pc[c] = "done" /\ FullyWritten(c)) =>
            \A i, j \in 1..Len(fetched[c]) :
                (i < j /\ Succeeded(fetched[c][i]) /\ Succeeded(fetched[c][j])) =>
                    \A u \in UnitsOf(fetched[c][i].outcome.metrics),
                       v \in UnitsOf(fetched[c][j].outcome.metrics) :
                        \A p \in Places(c, u), q \in Places(c, v) : p < q

\* a data line of fewer than two whitespace-separated tokens
IsMalformed(line) == IsData(line) /\ Len(Fields(line)) < 2

\* a 200 response whose body was read to its end and has a malformed line
MalformedFetch(f) ==
    /\ ~f.response.DoErr /\ f.response.StatusCode = 200 /\ ~f.response.ReadErr
    /\ \E i \in 1..Len(ScanLines(f.response.Body)) : IsMalformed(ScanLines(f.response.Body)[i])

\* the samples of the output of a fetch, as a scraper reads them, in order
OutputSamples(f) ==
    IF variant = "text"
    THEN LET data == SelectSeq(ScanLines(f.outcome.metrics),
                               LAMBDA l : IsData(l) /\ ~IsMalformed(l))
         IN [i \in 1..Len(data) |-> ReadSample(data[i])]
    ELSE LET fams == f.outcome.metrics
             flat[k \in 0..Len(fams)] ==
                 IF k = 0 THEN <<>>
                 ELSE flat[k - 1] \o [m \in 1..Len(fams[k].metric) |->
                                         [ok |-> TRUE, name |-> fams[k].name, list |-> TRUE,
                                          pairs |-> fams[k].metric[m].label,
                                          tokens |-> fams[k].metric[m].value]]
         IN flat[Len(fams)]

\* C13: a data line of fewer than two tokens does not fail its endpoint: the
\* fetch succeeds, and every well-formed line of the body, before and after
\* the malformed one, is in the output with its name, its value and every
\* extra label.
C13_MalformedLineTolerated ==
    \A c \in Clients : \A i \in 1..Len(fetched[c]) :
        LET f == fetched[c][i] IN
        MalformedFetch(f) =>
            /\ Succeeded(f)
            /\ LET good == SelectSeq(ScanLines(f.response.Body),
                                     LAMBDA l : IsData(l) /\ ~IsMalformed(l))
                   out == OutputSamples(f)
               IN /\ Len(out) = Len(good)
                  /\ \A j \in 1..Len(good) :
                        /\ out[j].ok
                        /\ out[j].name = ReadSample(good[j]).name
                        /\ out[j].tokens = ReadSample(good[j]).tokens
                        /\ \A key \in DOMAIN Labels :
                              [name |-> key, value |-> Labels[key]] \in Range(out[j].pairs)

\* C14: a running engine has at least one enabled endpoint: a configuration
\* whose endpoints are all disabled is rejected when it is loaded, so no
\* scrape is ever served with nothing to fetch.
C14_SomeEndpointEnabled ==
    \A c \in Clients :
        pc[c] # "idle" => Len(GetEnabledEndpoints(Endpoints)) >= 1

\* the fetches of the scrape of client c that succeeded
SucceededOf(c) == {i \in 1..Len(fetched[c]) : Succeeded(fetched[c][i])}

\* C15: the endpoint names of an accepted configuration are pairwise
\* distinct, and so the results of a scrape have as many entries as enabled
\* endpoints succeeded: no output is overwritten by another endpoint's.
C15_DistinctNames ==
    /\ \A i, j \in 1..Len(Endpoints) : Endpoints[i].Name = Endpoints[j].Name => i = j
    /\ \A c \in Clients :
          pc[c] \in {"collect", "done"} =>
              Cardinality(DOMAIN results[c]) = Cardinality(SucceededOf(c))

\* the upstream did not give a 200 response whose body could be read and
\* parsed: no response, another status, a body that breaks off, a body the
\* parser rejects
NotClean(f) ==
    \/ f.response.DoErr
    \/ f.response.StatusCode # 200
    \/ f.response.ReadErr
    \/ variant = "families" /\ TextToMetricFamilies(f.response.Body).err

\* C16: a fetch succeeds only on a response with status exactly 200; on any
\* other status (204, 304, 500) and on every other failure (no response, a
\* body that cannot be read or parsed) the fetch fails, the results of the
\* scrape are left as they are, the endpoint's gauge is set to 0 and its
\* error counter goes up by one.
C16_OnlyStatus200Succeeds ==
    [][\A c \in Clients :
          FetchedNow(c) =>
              LET f == NewFetch(c)
                  n == f.endpoint.Name
              IN /\ Succeeded(f) => (~f.response.DoErr /\ f.response.StatusCode = 200)
                 /\ NotClean(f) =>
                       /\ Failed(f)
                       /\ results'[c] = results[c]
                       /\ ScrapeSuccess'[n] = 0
                       /\ ScrapeErrors'[n] = ScrapeErrors[n] + 1]_vars

\* C16, witness: a scrape of three endpoints has ended in which one fetch got
\* status 204, one got no response and one succeeded; only the last is in
\* the results
C16_Witness ==
    /\ pc["c1"] = "done"
    /\ Len(fetched["c1"]) = 3
    /\ \E i, j, k \in 1..3 :
          /\ fetched["c1"][i].response.StatusCode = 204 /\ Failed(fetched["c1"][i])
          /\ fetched["c1"][j].response.DoErr /\ Failed(fetched["c1"][j])
          /\ Succeeded(fetched["c1"][k])
          /\ DOMAIN results["c1"] = {fetched["c1"][k].endpoint.Name}
          /\ ScrapeSuccess[fetched["c1"][i].endpoint.Name] = 0

\* C18: in a scrape every enabled endpoint is requested exactly once, a
\* disabled endpoint never, and no endpoint a second time after a failure.
C18_EachEnabledOnce ==
    \A c \in Clients :
        LET enabled == GetEnabledEndpoints(Endpoints) IN
        /\ \A i \in 1..Len(fetched[c]) :
              /\ fetched[c][i].endpoint.Enabled
              /\ \A j \in 1..Len(fetched[c]) :
                    fetched[c][i].endpoint = fetched[c][j].endpoint => i = j
        /\ ScrapeEnded(c) =>
              \A e \in Range(enabled) :
                  Cardinality({i \in 1..Len(fetched[c]) : fetched[c][i].endpoint = e}) = 1

\* the units of the outputs of the fetches of this scrape that succeeded
FreshUnits(c) == UNION {UnitsOf(fetched[c][i].outcome.metrics) : i \in SucceededOf(c)}

\* C19: nothing is kept from one scrape to the next: the results of a scrape
\* hold only outputs of fetches of this scrape that succeeded, and the Slurm
\* part of the response only units of those outputs; an endpoint that
\* succeeded in an earlier scrape and fails in this one has no entry.
C19_NoCrossScrapeCaching ==
    \A c \in Clients :
        /\ pc[c] \in {"collect", "done"} =>
              \A n \in DOMAIN results[c] :
                  \E i \in SucceededOf(c) :
                      /\ fetched[c][i].endpoint.Name = n
                      /\ results[c][n] = fetched[c][i].outcome.metrics
        /\ pc[c] = "done" => (Written(c) \ {SelfMetrics}) \subseteq FreshUnits(c)

\* C19, witness: the second scrape has ended and was written in full; nodes
\* succeeded in the first scrape and failed in the second, jobs succeeded
C19_Witness ==
    /\ scrapes = 2
    /\ pc["c1"] = "done"
    /\ FullyWritten("c1")
    /\ Len(Endpoints) = 2 /\ Endpoints[2].Name = "jobs" /\ Endpoints[1].Enabled
    /\ ScrapeDuration["nodes"] = 2
    /\ ScrapeErrors["nodes"] = 1
    /\ ScrapeSuccess["nodes"] = 0
    /\ DOMAIN results["c1"] = {"jobs"}

\* C17: once the context of a scrape is done, the fetch that is in flight
\* ends with the error of the context, no fetch of the scrape succeeds, and
\* no request goes out to an endpoint any more.
C17_Cancellation ==
    [][\A c \in Clients :
          cancelled[c] =>
              /\ ~(inflight'[c] /\ ~inflight[c])
              /\ FetchedNow(c) =>
                    /\ ~Succeeded(NewFetch(c))
                    /\ Failed(NewFetch(c))
                    /\ NewFetch(c).response.CtxErr
                    /\ NewFetch(c).issued = inflight[c]]_vars

\* C17, witness: the first fetch of a scrape succeeded, the context was done
\* while the second request was out, that fetch ended with the error of the
\* context, and the third endpoint was not requested
C17_Witness ==
    /\ cancelled["c1"]
    /\ pc["c1"] = "done"
    /\ Len(fetched["c1"]) = 3
    /\ Succeeded(fetched["c1"][1])
    /\ fetched["c1"][2].issued /\ fetched["c1"][2].response.CtxErr
    /\ Failed(fetched["c1"][2])
    /\ ~fetched["c1"][3].issued /\ Failed(fetched["c1"][3])

\* the handler of client c takes the step
StepOf(c) == fetched'[c] # fetched[c] \/ pc'[c] # pc[c]

\* C20: two scrapes served at the same time are independent: a step of one
\* handler leaves the results, the fetches and the response of the other as
\* they are; the results of a scrape hold only outputs of its own fetches,
\* and a response written in full holds exactly the units of its results.
C20_ConcurrentScrapesIndependent ==
    /\ [](\A c \in Clients :
             /\ pc[c] \in {"collect", "done"} =>
                   \A n \in DOMAIN results[c] :
                       \E i \in SucceededOf(c) :
                           /\ fetched[c][i].endpoint.Name = n
                           /\ results[c][n] = fetched[c][i].outcome.metrics
             /\ (pc[c] = "done" /\ FullyWritten(c)) =>
                   /\ (Written(c) \ {SelfMetrics}) \subseteq FreshUnits(c)
                   /\ \A i \in SucceededOf(c) :
                         UnitsOf(fetched[c][i].outcome.metrics) \subseteq Written(c))
    /\ [][\A c, d \in Clients :
            (c # d /\ StepOf(c)) =>
                /\ results'[d] = results[d]
                /\ fetched'[d] = fetched[d]
                /\ body'[d] = body[d]
                /\ status'[d] = status[d]
                /\ next'[d] = next[d]]_vars

\* C20, witness: both handlers are in the loop of CollectAll, each has made
\* a fetch, and the fetch of nodes succeeded for one and failed for the other
C20_Witness ==
    /\ pc["c1"] = "collect" /\ pc["c2"] = "collect"
    /\ Len(fetched["c1"]) = 1 /\ Len(fetched["c2"]) = 1
    /\ DOMAIN results["c1"] = {"nodes"}
    /\ DOMAIN results["c2"] = {}

(***************************************************************************)
(* Properties of the label injector.                                       *)
(***************************************************************************)

\* the metric names of the data lines of a text, in order
NamesOf(text) ==
    LET data == SelectSeq(ScanLines(text), IsData)
    IN [i \in 1..Len(data) |-> ReadSample(data[i]).name]

\* a sample of a family as a scraper reads it
FamilySample(family, m) ==
    [ok |-> TRUE, name |-> family.name, list |-> family.metric[m].label # <<>>,
     pairs |-> family.metric[m].label, tokens |-> <<family.metric[m].value>>]

\* an invocation of the injector that returned
Returns(e) == variant = "families" \/ e.out # PANIC

\* the samples of an invocation that returned: each well-formed sample of the
\* input with the sample the output has in its place
Samples(e) ==
    IF variant = "text"
    THEN LET a == ScanLines(e.in)
             b == ScanLines(e.out)
         IN {[in |-> ReadSample(a[i]), out |-> ReadSample(b[i])] :
                i \in {j \in 1..Len(a) : /\ IsData(a[j])
                                         /\ ReadSample(a[j]).ok
                                         /\ Len(ReadSample(a[j]).tokens) >= 1}}
    ELSE UNION {{[in |-> FamilySample(e.in[f], m), out |-> FamilySample(e.out[f], m)] :
                    m \in 1..Len(e.in[f].metric)} : f \in 1..Len(e.in)}

\* the label pairs of a sample that carry the key
WithKey(pairs, key) == {i \in 1..Len(pairs) : pairs[i].name = key}

\* C6: in the output of one endpoint the metric families, and the samples of
\* each family, come in the order in which the upstream body lists them.
C6_OrderWithinEndpoint ==
    \A k \in 1..Len(injOut) :
        LET e == injOut[k] IN
        IF variant = "text"
        THEN Returns(e) => NamesOf(e.out) = NamesOf(injIn)
        ELSE /\ [f \in 1..Len(e.out) |-> e.out[f].name] = [f \in 1..Len(injIn) |-> injIn[f].name]
             /\ \A f \in 1..Len(e.out), g \in 1..Len(injIn) :
                   e.out[f].name = injIn[g].name =>
                       [m \in 1..Len(e.out[f].metric) |-> e.out[f].metric[m].value]
                           = [m \in 1..Len(injIn[g].metric) |-> injIn[g].metric[m].value]

\* C7: a sample whose upstream labels include a configured extra-label key
\* carries that key exactly once in the output, with the configured value.
C7_ExtraLabelPrecedence ==
    \A k \in 1..Len(injOut) :
        Returns(injOut[k]) =>
            \A s \in Samples(injOut[k]) :
                \A key \in DOMAIN Labels :
                    WithKey(s.in.pairs, key) # {} =>
                        /\ s.out.ok
                        /\ Cardinality(WithKey(s.out.pairs, key)) = 1
                        /\ \A i \in WithKey(s.out.pairs, key) : s.out.pairs[i].value = Labels[key]

\* the line the injector is to make of `slurm_nodes_idle 5` with {cluster: c1}
UnlabeledInjected ==
    SlurmNodesIdle \o <<"{">> \o Cluster \o <<"=", "\"", "c", "1", "\"", "}", " ", "5", "\n">>

\* C8: with a non-empty extra-label mapping, the output sample of every data
\* line (labelled or not, with a timestamp or not, also with a blank in a
\* label value) has the same metric name, the same value and timestamp
\* tokens, every original label with its value and every extra label; and
\* `slurm_nodes_idle 5` becomes `slurm_nodes_idle{cluster="c1"} 5`.
\* (Stated for the lines without a label list and with a non-empty one; the
\* empty list `name{}` is the case of C30.)
C8_InjectionResult ==
    \A k \in 1..Len(injOut) :
        (Returns(injOut[k]) /\ DOMAIN Labels # {}) =>
            /\ \A s \in Samples(injOut[k]) :
                  (s.in.list => s.in.pairs # <<>>) =>
                  /\ s.out.ok
                  /\ s.out.name = s.in.name
                  /\ s.out.tokens = s.in.tokens
                  /\ Range(s.in.pairs) \subseteq Range(s.out.pairs)
                  /\ \A key \in DOMAIN Labels :
                        [name |-> key, value |-> Labels[key]] \in Range(s.out.pairs)
            /\ (variant = "text" /\ injOut[k].in = TextOf(<<Unlabeled>>) /\ Labels = OneLabel) =>
                  injOut[k].out = UnlabeledInjected

\* C9: with an empty extra-label mapping the injector returns its input
\* unchanged, whatever the input.
C9_NoOpOnEmptyLabels ==
    DOMAIN Labels = {} =>
        \A k \in 1..Len(injOut) : injOut[k].out = injOut[k].in

\* C9, witness: the injector ran with no extra labels on a body with a
\* comment, an unlabelled and a labelled sample
C9_Witness ==
    /\ DOMAIN Labels = {}
    /\ variant = "text"
    /\ injIn \in {TextOf(<<Unlabeled, Labeled>>), TextOf(<<HelpLine, Labeled>>)}
    /\ Len(injOut) = 2

\* C11: the injector does not change what it was given: once it has returned,
\* the text or the families passed in are as they were before the call; and
\* a second call on the input a caller kept gives what one call on a fresh
\* copy of the input gives.
C11_InputNotMutated ==
    \A k \in 1..Len(injOut) :
        Returns(injOut[k]) =>
            /\ injOut[k].after = injOut[k].in
            /\ injOut[k].reused =>
                  \E o \in Orders(DOMAIN Labels) :
                      injOut[k].out = addCustomLabelsFamilies(Labels, o, injOut[1].in)

\* C10: two invocations of the injector on the same input, with the same
\* extra-label mapping, give the same output, label for label and byte for
\* byte.
C10_Determinism ==
    \A j, k \in 1..Len(injOut) :
        injOut[j].in = injOut[k].in => injOut[j].out = injOut[k].out

\* a label value as a scraper reads it between the quotes: \\ is a
\* backslash, \" a quote, \n a line feed
RECURSIVE Unescape(_)
Unescape(raw) ==
    IF raw = <<>> THEN <<>>
    ELSE IF Head(raw) = "\\" /\ Len(raw) >= 2
         THEN <<IF raw[2] = "n" THEN "\n" ELSE raw[2]>> \o Unescape(SubSeq(raw, 3, Len(raw)))
         ELSE <<Head(raw)>> \o Unescape(Tail(raw))

\* the value of a label pair of a sample: the text between the quotes,
\* unescaped (raw text), or the string the LabelPair holds (families)
ValueOf(pair) == IF variant = "text" THEN Unescape(pair.value) ELSE pair.value

\* the sample, or the extra labels, hold a value with a quote or a backslash;
\* the sample has no label list, or one with labels and no blank in a value
HasEscapes(s) ==
    /\ s.in.list => s.in.pairs # <<>>
    /\ \A i \in 1..Len(s.in.pairs) : ~Contains(s.in.pairs[i].value, " ")
    /\ \/ \E i \in 1..Len(s.in.pairs) : Contains(s.in.pairs[i].value, "\\")
       \/ \E key \in DOMAIN Labels :
             Contains(Labels[key], "\"") \/ Contains(Labels[key], "\\")

\* C12: escaping round trip. When an upstream label value or a configured
\* extra-label value holds a quote and a backslash, the output sample is
\* readable, and reading it gives every upstream label with the value the
\* upstream line gives it and every extra label with its configured value.
C12_EscapingRoundTrip ==
    \A k \in 1..Len(injOut) :
        (Returns(injOut[k]) /\ DOMAIN Labels # {}) =>
            \A s \in Samples(injOut[k]) :
                HasEscapes(s) =>
                    /\ s.out.ok
                    /\ \A i \in 1..Len(s.in.pairs) :
                          \E j \in 1..Len(s.out.pairs) :
                              /\ s.out.pairs[j].name = s.in.pairs[i].name
                              /\ ValueOf(s.out.pairs[j]) = ValueOf(s.in.pairs[i])
                    /\ \A key \in DOMAIN Labels :
                          \E j \in 1..Len(s.out.pairs) :
                              /\ s.out.pairs[j].name = key
                              /\ ValueOf(s.out.pairs[j]) = Labels[key]

(***************************************************************************)
(* The gauge and the order in which fetches return                         *)
(***************************************************************************)

\* no scrape is under way
NoScrapeUnderWay == \A c \in Clients : pc[c] # "collect"

\* C21: once the scrapes have ended, the success gauge of an endpoint is 1
\* if the fetch of that endpoint that returned last succeeded, and 0 if it
\* failed.
C21_GaugeIsLastFetch ==
    NoScrapeUnderWay =>
       \A n \in EndpointNames : lastFetch[n] # -1 => ScrapeSuccess[n] = lastFetch[n]

(***************************************************************************)
(* Validate and GetEnabledEndpoints                                        *)
(***************************************************************************)

\* Validate is called in this step
ValidateCalled == validateErr = "uncalled" /\ validateErr' # "uncalled"

\* what the claim lists of a configuration that is accepted
AsListed(c) ==
    /\ c.Slurm.URL # ""
    /\ ParseDuration(c.Slurm.Timeout) = nil
    /\ c.Server.Port \in 1..65535
    /\ \E i \in 1..Len(c.Endpoints) : c.Endpoints[i].Name # "" /\ c.Endpoints[i].Path # 0
    /\ c.Logging.Level \in ValidLevels

\* what the claim lists of a configuration that is rejected
MustFail(c) ==
    c.Slurm.URL = "" \/ c.Server.Port \notin 1..65535 \/ Len(c.Endpoints) = 0

\* C22 as stated: Validate accepts a configuration with a non-empty URL, a
\* parseable timeout, a port in 1..65535, at least one endpoint with a name
\* and a path, and a valid log level; it returns an error on an empty URL, a
\* port outside 1..65535 or an empty endpoint list.
C22_ValidateAsStated ==
    [][ValidateCalled =>
          /\ AsListed(cfg) => validateErr' = nil
          /\ MustFail(cfg) => validateErr' # nil]_vars

\* the basic auth and ssl sections are switched off or filled in
SectionsComplete(c) ==
    /\ c.Server.BasicAuth.Enabled =>
          c.Server.BasicAuth.Username # "" /\ c.Server.BasicAuth.Password # ""
    /\ c.Server.SSL.Enabled => c.Server.SSL.CertFile # "" /\ c.Server.SSL.KeyFile # ""

\* C22: Validate accepts a configuration with a non-empty URL, a parseable
\* timeout, a port in 1..65535, basic auth and ssl sections that are off or
\* filled in, and at least one endpoint, every endpoint with a name and a
\* path, and a log level that is valid; it returns an error on an empty URL,
\* a port outside 1..65535 or an empty endpoint list.
C22_Validate ==
    [][ValidateCalled =>
          /\ (/\ AsListed(cfg)
              /\ SectionsComplete(cfg)
              /\ \A i \in 1..Len(cfg.Endpoints) :
                    cfg.Endpoints[i].Name # "" /\ cfg.Endpoints[i].Path # 0)
                => validateErr' = nil
          /\ MustFail(cfg) => validateErr' # nil]_vars

\* Validate accepted the configuration of TestValidate, and one with ssl
C22_Witness ==
    /\ validateErr = nil
    /\ cfg.Server.BasicAuth.Enabled
    /\ cfg.Server.SSL.Enabled
    /\ Len(cfg.Endpoints) = 3

\* the positions of the enabled endpoints of a list
EnabledAt(endpoints) == {i \in 1..Len(endpoints) : endpoints[i].Enabled}

\* the k-th of a set of positions, counted from the front
Kth(positions, k) ==
    CHOOSE i \in positions : Cardinality({j \in positions : j <= i}) = k

\* C23: GetEnabledEndpoints returns the endpoints of the configuration whose
\* enabled flag is true, each once and in the order of their declaration,
\* and the configuration is as it was before the call.
C23_EnabledInOrder ==
    [][enabledEndpoints' # enabledEndpoints =>
          /\ cfg' = cfg
          /\ LET enabled == enabledEndpoints'.value
                 at == EnabledAt(cfg.Endpoints)
             IN  /\ Len(enabled) = Cardinality(at)
                 /\ \A k \in 1..Len(enabled) : enabled[k] = cfg.Endpoints[Kth(at, k)]]_vars

\* the call of TestGetEnabledEndpoints: the second of three endpoints is off
C23_Witness ==
    /\ enabledEndpoints.called
    /\ Len(cfg.Endpoints) = 3
    /\ ~cfg.Endpoints[2].Enabled
    /\ Len(enabledEndpoints.value) = 2

(***************************************************************************)
(* The /metrics response, basic auth and the instrumented writer           *)
(***************************************************************************)

\* the units WriteMetrics has to write for the results of client c
SlurmUnits(c) ==
    LET res == results[ResultsMap(c)] IN
    WriteMetrics(res, CHOOSE o \in Orders(DOMAIN res) : TRUE)

\* C24: in a /metrics response the exporter's own metrics come last, after
\* every unit of the Slurm metrics; they are there only if every unit of the
\* Slurm metrics was written, and a response without them is one in which a
\* write of the Slurm metrics failed: it holds fewer units than there are.
C24_SelfMetricsAfterSlurmMetrics ==
    \A c \in Clients :
        pc[c] = "done" =>
           /\ FullyWritten(c) =>
                 /\ Len(body[c]) = Len(SlurmUnits(c)) + 1
                 /\ Range(SubSeq(body[c], 1, Len(body[c]) - 1)) = Range(SlurmUnits(c))
           /\ ~FullyWritten(c) =>
                 /\ Len(body[c]) < Len(SlurmUnits(c))
                 /\ Range(body[c]) \subseteq Range(SlurmUnits(c))

\* a write of the Slurm metrics failed, and the handler returned
C24_Witness ==
    /\ pc["c1"] = "done"
    /\ SlurmUnits("c1") # <<>>
    /\ body["c1"] = <<>>

\* the credentials of a request are those of the configuration
HasCredentials(r) ==
    /\ r.Authorization.Scheme = "Basic"
    /\ r.Authorization.Username = cfg.Server.BasicAuth.Username
    /\ r.Authorization.Password = cfg.Server.BasicAuth.Password

\* the server has handled, or is handling, a request of client c
Handled(c) == pc[c] # "idle"

\* C25: with basic auth enabled, a request to any path reaches a handler of
\* the mux if and only if it carries Basic credentials equal to the
\* configured ones; any other request is answered 401 with a
\* WWW-Authenticate header, no endpoint is fetched for it, and the step that
\* answers it leaves the request counter alone.
C25_BasicAuth ==
    /\ [](cfg.Server.BasicAuth.Enabled =>
             \A c \in Clients :
                Handled(c) =>
                   /\ route[c] # "none" <=> HasCredentials(request[c])
                   /\ ~HasCredentials(request[c]) =>
                         /\ status[c] = 401
                         /\ authenticate[c]
                         /\ fetched[c] = <<>>)
    /\ [][\A c \in Clients :
             (cfg.Server.BasicAuth.Enabled /\ status'[c] = 401 /\ pc'[c] = "answered")
                => HTTPRequestsTotal' = HTTPRequestsTotal]_vars

\* a /metrics request with a wrong password was refused after a scrape
C25_Witness ==
    /\ cfg.Server.BasicAuth.Enabled
    /\ request["c1"] = HTTPRequest("/metrics", Basic("admin", "wrong"))
    /\ status["c1"] = 401
    /\ scrapes > 0

\* the handler of /metrics called WriteHeader(500) before it wrote anything:
\* nothing but the message of http.Error was written
HeaderBeforeWrite(c) == pc[c] = "done" /\ body[c] = <<GatherError>>

\* the requests counted so far under a status label
Counted(st) == HTTPRequestsTotal[st]

\* C26: when the /metrics handler calls WriteHeader(s) before it writes, the
\* client receives s and the request counter goes up under the label s; when
\* the handler only writes, the status received and counted is 200.
C26_StatusCaptured ==
    \A c \in Clients :
        /\ HeaderBeforeWrite(c) => status[c] = 500 /\ wrw[c] = 500 /\ Counted(500) > 0
        /\ (pc[c] = "done" /\ ~HeaderBeforeWrite(c)) =>
              status[c] = 200 /\ wrw[c] = 200 /\ Counted(200) > 0

(***************************************************************************)
(* Shutdown                                                                *)
(***************************************************************************)

\* C27: after a signal, once Shutdown has returned without error the process
\* ends with "exporter stopped successfully" and status 0; and when Start
\* returned because of the requested shutdown (ErrServerClosed), "server
\* failed" is not logged and the process does not exit with 1.
C27_GracefulShutdown ==
    /\ (mainPc = "stopped" /\ exitCode # "running") => exitCode = "0"
    /\ startErr = "ErrServerClosed" =>
          /\ "server failed" \notin Range(log)
          /\ startPc # "exited"

\* C28: Stop runs only after Start has assigned s.server: when main is about
\* to call Stop the field is set, and the process never panics on a nil
\* s.server.
C28_StopAfterStartAssigned ==
    /\ mainPc = "stop" => server = "set"
    /\ exitCode # "panic"

(***************************************************************************)
(* The raw-text injector: comment lines, line count, label lists           *)
(***************************************************************************)

\* the lines of a text: what stands between its newlines, and what follows
\* the last newline if anything does
RECURSIVE SplitLines(_)
SplitLines(text) ==
    IF text = <<>> THEN <<>>
    ELSE LET i == Index(text, "\n") IN
         IF i < 0 THEN <<text>>
         ELSE <<SubSeq(text, 1, i)>> \o SplitLines(SubSeq(text, i + 2, Len(text)))

\* C29: the relabeled text has one line for every line of the body, and
\* every line of the body that starts with '#' stands in the same place of
\* the output, byte for byte, whatever the body.
C29_CommentLinesUntouched ==
    \A k \in 1..Len(injOut) :
        (variant = "text" /\ Returns(injOut[k])) =>
            LET a == SplitLines(injOut[k].in)
                b == SplitLines(injOut[k].out)
            IN  /\ Len(b) = Len(a)
                /\ \A i \in 1..Len(a) : HasPrefix(a[i], <<"#">>) => b[i] = a[i]

\* no label value of the sample or of the configuration needs care: none
\* holds a blank, a quote or a backslash
PlainValues(s) ==
    /\ \A i \in 1..Len(s.in.pairs) :
          ~Contains(s.in.pairs[i].value, " ") /\ ~Contains(s.in.pairs[i].value, "\\")
    /\ \A key \in DOMAIN Labels :
          ~Contains(Labels[key], "\"") /\ ~Contains(Labels[key], "\\")

\* C30: the output of a well-formed data line is well-formed: its label list
\* reads as key="value" pairs between one pair of braces, and a sample with
\* an empty label list `name{}` gets a list of exactly the extra labels.
C30_WellFormedLabelList ==
    \A k \in 1..Len(injOut) :
        (Returns(injOut[k]) /\ DOMAIN Labels # {}) =>
            \A s \in Samples(injOut[k]) :
                PlainValues(s) =>
                    /\ s.out.ok
                    /\ s.out.list
                    /\ (s.in.list /\ s.in.pairs = <<>>) =>
                          /\ Len(s.out.pairs) = Cardinality(DOMAIN Labels)
                          /\ \A key \in DOMAIN Labels :
                                [name |-> key, value |-> Labels[key]] \in Range(s.out.pairs)

====
